---- MODULE Spec2Model ----
(***************************************************************************)
(* Model of src/traditional_analysis.py: largest-component extraction,     *)
(* endo-/epicardium split, perimeter extraction and polygon tracing of     *)
(* binary masks.                                                           *)
(*                                                                         *)
(* A mask is a record [shape, fg, dtype]: shape is the tuple of axis       *)
(* lengths, fg the set of index tuples (row, column), 0-based, holding a  *)
(* nonzero value, dtype the element type of the array.  Each call of a     *)
(* function of the module is one action; it records the outcome in         *)
(* `raised` (the exception that left the call, or "none") and `ret` (the   *)
(* returned value).                                                        *)
(***************************************************************************)
EXTENDS Integers, Sequences, FiniteSets, TLC

VARIABLES mask, op, seed, traced, raised, ret

vars == <<mask, op, seed, traced, raised, ret>>

\* ------------------------------------------------------------------ bounds

\* Every 2-D mask with at most MaxCells pixels is an input.
MaxCells == 9

\* Every filled rectangle inside an image of at most MaxGrid x MaxGrid pixels
\* is an input.
MaxGrid == 4

\* Polygon tracing: every axis of a traced array has at most MaxAxis entries,
\* the tracer yields at most MaxContours contours of at most MaxPoints points.
MaxAxis == 2
MaxContours == 2
MaxPoints == 2

\* ------------------------------------------------------------- arithmetic

Abs(x) == IF x < 0 THEN -x ELSE x

RECURSIVE SumOver(_, _)
SumOver(S, axis) ==
    IF S = {} THEN 0
    ELSE LET p == CHOOSE q \in S : TRUE
         IN  p[axis] + SumOver(S \ {p}, axis)

\* ------------------------------------------------------------------ masks

Height(m) == m.shape[1]
Width(m)  == m.shape[2]
NDim(m)   == Len(m.shape)

Cells(shape) == {<<r, c>> : r \in 0 .. shape[1] - 1, c \in 0 .. shape[2] - 1}

Background(m) == Cells(m.shape) \ m.fg

\* A binary array of the given shape and element type.
Array(shape, fg, dtype) == [shape |-> shape, fg |-> fg, dtype |-> dtype]

\* ndarray.astype(np.uint8) of a binary array: True -> 1, False -> 0.
AsUint8(m) == Array(m.shape, m.fg, "uint8")

\* --------------------------------------------------- library: connectivity

\* Two pixels are neighbours under skimage's `connectivity` (the maximum
\* number of orthogonal hops): 1 is the 4-neighbourhood, 2 the 8-neighbourhood.
Neighbours(p, q, connectivity) ==
    /\ p # q
    /\ Abs(p[1] - q[1]) <= 1
    /\ Abs(p[2] - q[2]) <= 1
    /\ Abs(p[1] - q[1]) + Abs(p[2] - q[2]) <= connectivity

\* The pixels of S joined to a pixel of T by a chain of neighbours inside S.
RECURSIVE Grow(_, _, _)
Grow(S, T, connectivity) ==
    LET N == {q \in S \ T : \E p \in T : Neighbours(p, q, connectivity)}
    IN  IF N = {} THEN T ELSE Grow(S, T \cup N, connectivity)

\* The first pixel of S in raster-scan order (row by row, left to right).
RasterFirst(S) ==
    CHOOSE p \in S : \A q \in S : p[1] < q[1] \/ (p[1] = q[1] /\ p[2] <= q[2])

\* The connected regions of S, in the order the raster scan meets them.
RECURSIVE Regions(_, _)
Regions(S, connectivity) ==
    IF S = {} THEN <<>>
    ELSE LET R == Grow(S, {RasterFirst(S)}, connectivity)
         IN  <<R>> \o Regions(S \ R, connectivity)

\* skimage.measure.label(mask): connectivity defaults to mask.ndim (full
\* connectivity), background is 0, labels are 1..N in raster-scan order.
label(m) ==
    LET regs == Regions(m.fg, NDim(m))
    IN  [p \in Cells(m.shape) |->
            IF p \in m.fg THEN CHOOSE i \in 1 .. Len(regs) : p \in regs[i] ELSE 0]

MaxLabel(labeled) ==
    IF DOMAIN labeled = {} THEN 0
    ELSE CHOOSE l \in {labeled[p] : p \in DOMAIN labeled} :
             \A p \in DOMAIN labeled : labeled[p] <= l

\* skimage.measure.regionprops(labeled): one region per label, in label order.
\* The centroid is the mean of the region's coordinates, kept exact as the
\* coordinate sums over the area.
regionprops(labeled) ==
    [l \in 1 .. MaxLabel(labeled) |->
        LET coords == {p \in DOMAIN labeled : labeled[p] = l}
        IN  [label |-> l,
             area |-> Cardinality(coords),
             centroid |-> <<SumOver(coords, 1), SumOver(coords, 2)>>]]

\* Mutant: int() of the mean without np.round (truncation).
np_round_trunc(num, den) == num \div den

\* np.round(x, decimals=0) of the non-negative fraction num/den, then int():
\* round to nearest, ties to the even integer.
np_round(num, den) ==
    LET q == num \div den
        r == num % den
    IN  IF 2 * r < den THEN q
        ELSE IF 2 * r > den THEN q + 1
        ELSE IF q % 2 = 0 THEN q ELSE q + 1

\* Mutant: the first region, whatever its area.
FirstRegion(properties) == properties[1]

\* max(properties, key=lambda x: x.area): the first region of maximal area.
MaxByArea(properties) ==
    properties[CHOOSE i \in 1 .. Len(properties) :
        /\ \A j \in 1 .. Len(properties) : properties[j].area <= properties[i].area
        /\ \A j \in 1 .. i - 1 : properties[j].area < properties[i].area]

\* ------------------------------------------------------------- outcomes

Return(value) == [raised |-> "none", value |-> value]
Raise(exception) == [raised |-> exception, value |-> <<>>]

\* ------------------------------------------- extract_largest_component

\* Mutant: the centroid returned as (column, row).
extract_largest_component_swapped(m) ==
    LET labeled_mask == label(m)
        properties == regionprops(labeled_mask)
    IN  IF Len(properties) = 0
        THEN Raise("ValueError")
        ELSE LET biggest_component == MaxByArea(properties)
                 _centroid == biggest_component.centroid
                 _row == np_round(_centroid[1], biggest_component.area)
                 _column == np_round(_centroid[2], biggest_component.area)
             IN  Return(<<Array(m.shape,
                               {p \in DOMAIN labeled_mask :
                                   labeled_mask[p] = biggest_component.label},
                               "uint8"),
                          <<_column, _row>>>>)

extract_largest_component(m) ==
    LET labeled_mask == label(m)
        properties == regionprops(labeled_mask)
    IN  IF Len(properties) = 0
        THEN Raise("ValueError")   \* max() arg is an empty sequence
        ELSE LET biggest_component == MaxByArea(properties)
                 _centroid == biggest_component.centroid
                 _row == np_round(_centroid[1], biggest_component.area)
                 _column == np_round(_centroid[2], biggest_component.area)
                 largest_component_mask ==
                     Array(m.shape,
                           {p \in DOMAIN labeled_mask :
                               labeled_mask[p] = biggest_component.label},
                           "uint8")
             IN  Return(<<largest_component_mask, <<_row, _column>>>>)

\* ------------------------------------------------ library: convex hull

Cross(o, a, b) == (a[1] - o[1]) * (b[2] - o[2]) - (a[2] - o[2]) * (b[1] - o[1])
Dot(o, a, b)   == (a[1] - o[1]) * (b[1] - o[1]) + (a[2] - o[2]) * (b[2] - o[2])

\* possible_hull(image): the pixels that start or end a row or a column of the
\* foreground; the hull's vertices are among them.
possible_hull(fg) ==
    {p \in fg :
        \/ \A q \in fg : q[1] = p[1] => q[2] >= p[2]
        \/ \A q \in fg : q[1] = p[1] => q[2] <= p[2]
        \/ \A q \in fg : q[2] = p[2] => q[1] >= p[1]
        \/ \A q \in fg : q[2] = p[2] => q[1] <= p[1]}

\* scipy.spatial.ConvexHull fails (QhullError) on fewer than three points and
\* on points that all lie on one line: the initial simplex is flat.
QhullError(coords) ==
    \A a \in coords : \A b \in coords : \A c \in coords : Cross(a, b, c) = 0

\* A line through p leaves every point of coords strictly on one side, or on
\* the ray from p through q: p is outside the hull of coords.
Outside(p, coords) ==
    \E q \in coords : \A s \in coords :
        \/ Cross(p, q, s) > 0
        \/ (Cross(p, q, s) = 0 /\ Dot(p, q, s) > 0)

\* Mutant: include_borders=False, only the pixels strictly inside the hull.
grid_points_in_poly_inside(shape, coords) ==
    {p \in Cells(shape) :
        /\ p \in coords \/ ~Outside(p, coords)
        /\ ~\E q \in coords \ {p} : \A s \in coords : Cross(p, q, s) >= 0}

\* grid_points_in_poly(shape, vertices) >= 1: the pixels inside the hull, its
\* vertices and its edges (include_borders=True).
grid_points_in_poly(shape, coords) ==
    {p \in Cells(shape) : p \in coords \/ ~Outside(p, coords)}

\* skimage.morphology.convex_hull_image(mask, offset_coordinates=False): the
\* hull is taken over the pixel coordinates themselves.  An all-zero image and
\* a failed hull both give an all-False image (with a warning).
convex_hull_image(m) ==
    IF m.fg = {} THEN Array(m.shape, {}, "bool")
    ELSE LET coords == possible_hull(m.fg)
         IN  IF QhullError(coords) THEN Array(m.shape, {}, "bool")
             ELSE Array(m.shape, grid_points_in_poly(m.shape, coords), "bool")

\* -------------------------------------------------- library: flood fill

\* Mutant: the fill takes foreground pixels only.
flood_foreground_only(m, seed_point) ==
    Array(m.shape,
          IF seed_point \in m.fg THEN Grow(m.fg, {seed_point}, NDim(m)) ELSE {},
          "bool")

\* Mutant: connectivity=1, the 4-neighbourhood.
flood_connectivity1(m, seed_point) ==
    LET same == IF seed_point \in m.fg THEN m.fg ELSE Background(m)
    IN  Array(m.shape, Grow(same, {seed_point}, 1), "bool")

\* skimage.morphology.flood(mask, seed_point): tolerance is None, so the fill
\* takes the pixels whose value equals the seed pixel's value; connectivity
\* defaults to mask.ndim (full connectivity).  The seed is inside the image.
flood(m, seed_point) ==
    LET same == IF seed_point \in m.fg THEN m.fg ELSE Background(m)
    IN  Array(m.shape, Grow(same, {seed_point}, NDim(m)), "bool")

\* ----------------------------------------------- split_into_endo_epi_masks

split_into_endo_epi_masks(m, centroid) ==
    LET epicardium_mask == convex_hull_image(m)
        endocaridum_mask == flood(m, centroid)
    IN  Return(<<AsUint8(epicardium_mask), AsUint8(endocaridum_mask)>>)

\* ------------------------------------------------------ get_endo_epi_masks

get_endo_epi_masks(m) ==
    LET extracted == extract_largest_component(m)
    IN  IF extracted.raised # "none" THEN extracted
        ELSE LET largest_component == extracted.value[1]
                 centroid == extracted.value[2]
             IN  split_into_endo_epi_masks(largest_component, centroid)

\* ------------------------------------------------- library: binary erosion

\* The default footprint: the cross of connectivity 1, centre included.
Footprint == {<<0, 0>>, <<-1, 0>>, <<1, 0>>, <<0, -1>>, <<0, 1>>}

\* skimage.morphology.binary_erosion(mask): a pixel stays set when every
\* pixel under the footprint is set; pixels outside the image count as set
\* (border_value=True).
binary_erosion(m) ==
    Array(m.shape,
          {p \in Cells(m.shape) :
              \A d \in Footprint :
                  LET q == <<p[1] + d[1], p[2] + d[2]>>
                  IN  IF q \in Cells(m.shape) THEN q \in m.fg ELSE TRUE},
          "bool")

\* ----------------------------------------------------------- get_perimeter

\* The value of pixel p of a binary array.
Value(m, p) == IF p \in m.fg THEN 1 ELSE 0

\* mask - eroded, element by element.  numpy refuses the `-` operator on two
\* boolean arrays (TypeError); a uint8 mask minus a boolean array is computed
\* in uint8, modulo 2^8.
get_perimeter(m) ==
    LET eroded == binary_erosion(m)
    IN  IF m.dtype = "bool" THEN Raise("TypeError")
        ELSE Return([shape |-> m.shape,
                     dtype |-> m.dtype,
                     val |-> [p \in Cells(m.shape) |->
                                 (Value(m, p) - Value(eroded, p)) % 256]])

\* -------------------------------------------------------- mask_to_polygons

\* Mutant: the points are left as (row, column).
flip_none(contour) == contour

\* np.flip(contour, axis=1): each (row, column) point becomes (x, y).
flip(contour) == [i \in 1 .. Len(contour) |-> <<contour[i][2], contour[i][1]>>]

\* contour.ravel().tolist(): the points' coordinates in one flat list.
RECURSIVE ravel(_)
ravel(contour) ==
    IF Len(contour) = 0 THEN <<>>
    ELSE Head(contour) \o ravel(Tail(contour))

RECURSIVE Polygons(_)
Polygons(contours) ==
    IF Len(contours) = 0 THEN <<>>
    ELSE <<ravel(flip(Head(contours)))>> \o Polygons(Tail(contours))

NotTraced == [called |-> FALSE, contours |-> <<>>]

\* Mutant: no assertion on mask.ndim.
mask_to_polygons_unchecked(m, tracer) ==
    IF tracer.raised # "none"
    THEN [raised |-> tracer.raised, value |-> <<>>,
          traced |-> [called |-> TRUE, contours |-> <<>>]]
    ELSE [raised |-> "none", value |-> Polygons(tracer.value),
          traced |-> [called |-> TRUE, contours |-> tracer.value]]

\* `tracer` is the outcome measure.find_contours(mask) has when it is called;
\* it is not called when the assertion on mask.ndim fails.  The outcome's
\* `traced` tells whether the tracer ran, and on which contours.
mask_to_polygons(m, tracer) ==
    IF NDim(m) # 2
    THEN [raised |-> "AssertionError",   \* Mask must be 2D, not {ndim}D
          value |-> <<>>, traced |-> NotTraced]
    ELSE IF tracer.raised # "none"
    THEN [raised |-> tracer.raised, value |-> <<>>,
          traced |-> [called |-> TRUE, contours |-> <<>>]]
    ELSE [raised |-> "none", value |-> Polygons(tracer.value),
          traced |-> [called |-> TRUE, contours |-> tracer.value]]

\* ------------------------------------------------------------------ inputs

DTypes == {"uint8", "bool"}

SmallShapes ==
    {s \in (1 .. MaxCells) \X (1 .. MaxCells) : s[1] * s[2] <= MaxCells}

\* Every binary mask of a small shape.
SmallMasks ==
    UNION {{Array(s, fg, d) : fg \in SUBSET Cells(s), d \in DTypes} :
              s \in SmallShapes}

Rect(r0, r1, c0, c1) == {<<r, c>> : r \in r0 .. r1, c \in c0 .. c1}

\* Every filled rectangle in an image of up to MaxGrid x MaxGrid pixels.
RectMasks ==
    UNION {{Array(s, Rect(r0, r1, c0, c1), d) :
                r0 \in 0 .. s[1] - 1, r1 \in 0 .. s[1] - 1,
                c0 \in 0 .. s[2] - 1, c1 \in 0 .. s[2] - 1, d \in DTypes} :
              s \in (1 .. MaxGrid) \X (1 .. MaxGrid)}

InputMasks == SmallMasks \cup {m \in RectMasks : m.fg # {}}

\* Arrays of one, two and three dimensions handed to the polygon tracer, all
\* zero or all one.
Indices(shape) ==
    IF Len(shape) = 1 THEN {<<i>> : i \in 0 .. shape[1] - 1}
    ELSE IF Len(shape) = 2 THEN Cells(shape)
    ELSE {<<i, j, k>> : i \in 0 .. shape[1] - 1, j \in 0 .. shape[2] - 1,
                        k \in 0 .. shape[3] - 1}

TraceShapes ==
    UNION {[1 .. n -> 1 .. MaxAxis] : n \in 1 .. 3}

TraceMasks ==
    UNION {{Array(s, {}, "uint8"), Array(s, Indices(s), "uint8")} :
              s \in TraceShapes}

\* Contour points as the tracer gives them, (row, column), in half pixels.
Points == {<<0, 1>>, <<3, 2>>}

SeqsUpTo(S, lo, hi) == UNION {[1 .. n -> S] : n \in lo .. hi}

Contours == SeqsUpTo(Points, 1, MaxPoints)

\* measure.find_contours(mask): the tracer is a library service; on a 2-D
\* array any list of contours is a possible answer, on any other array it
\* raises ValueError (only 2D arrays are supported).
find_contours(m) ==
    IF NDim(m) # 2 THEN {Raise("ValueError")}
    ELSE {Return(contours) : contours \in SeqsUpTo(Contours, 0, MaxContours)}

\* ----------------------------------------------------------------- actions

Start(m) ==
    /\ mask = m
    /\ op = "none"
    /\ seed = <<>>
    /\ traced = NotTraced
    /\ raised = "none"
    /\ ret = <<>>

Init == \E m \in InputMasks : Start(m)

Finish(name, outcome) ==
    /\ op' = name
    /\ raised' = outcome.raised
    /\ ret' = outcome.value

CallExtractLargestComponent ==
    /\ op = "none"
    /\ Finish("extract_largest_component", extract_largest_component(mask))
    /\ UNCHANGED <<mask, seed, traced>>

\* The caller supplies the centroid: any pixel of the image.
CallSplitIntoEndoEpiMasks ==
    /\ op = "none"
    /\ \E centroid \in Cells(mask.shape) :
          /\ seed' = centroid
          /\ Finish("split_into_endo_epi_masks",
                    split_into_endo_epi_masks(mask, centroid))
    /\ UNCHANGED <<mask, traced>>

\* The seed recorded is the centroid handed to split_into_endo_epi_masks.
CallGetEndoEpiMasks ==
    /\ op = "none"
    /\ LET extracted == extract_largest_component(mask)
       IN  seed' = IF extracted.raised = "none" THEN extracted.value[2] ELSE <<>>
    /\ Finish("get_endo_epi_masks", get_endo_epi_masks(mask))
    /\ UNCHANGED <<mask, traced>>

CallGetPerimeter ==
    /\ op = "none"
    /\ Finish("get_perimeter", get_perimeter(mask))
    /\ UNCHANGED <<mask, seed, traced>>

CallMaskToPolygons ==
    /\ op = "none"
    /\ \E tracer \in find_contours(mask) :
          LET outcome == mask_to_polygons(mask, tracer)
          IN  /\ traced' = outcome.traced
              /\ Finish("mask_to_polygons", outcome)
    /\ UNCHANGED <<mask, seed>>

Next ==
    \/ CallExtractLargestComponent
    \/ CallSplitIntoEndoEpiMasks
    \/ CallGetEndoEpiMasks
    \/ CallGetPerimeter

Spec == Init /\ [][Next]_vars

\* Polygon tracing, on arrays of one to three dimensions.
InitPolygons == \E m \in TraceMasks : Start(m)

NextPolygons == CallMaskToPolygons

SpecPolygons == InitPolygons /\ [][NextPolygons]_vars

\* ------------------------------------------------- properties: vocabulary

\* 8-adjacency of two pixels, stated on its own.
Touch(p, q) ==
    LET dr == Abs(p[1] - q[1])
        dc == Abs(p[2] - q[2])
    IN  (IF dr > dc THEN dr ELSE dc) = 1

\* The pixels of S reachable from the pixels of T along touching pixels of S.
RECURSIVE Reachable(_, _)
Reachable(S, T) ==
    LET next == T \cup {q \in S : \E p \in T : Touch(p, q)}
    IN  IF next = T THEN T ELSE Reachable(S, next)

SingleComponent(S) ==
    S # {} /\ Reachable(S, {CHOOSE p \in S : TRUE}) = S

ComponentsOf(S) == {Reachable(S, {p}) : p \in S}

\* k is the mean of the coordinates of S along `axis`, rounded to the nearest
\* integer, a tie going to the even one.
IsRoundedMean(k, S, axis) ==
    LET n == Cardinality(S)
        d == 2 * (n * k - SumOver(S, axis))
    IN  /\ Abs(d) <= n
        /\ Abs(d) = n => k % 2 = 0

Called(name) == op = name

Returned(name) == op = name /\ raised = "none"

\* ---------------------------------------------------------------- claim C1

\* C1 (as stated): extract_largest_component on a mask with no foreground pixel
\* fails with an EmptyMaskError and never with the fault of taking the maximum
\* over an empty sequence.  The code raises that fault (ValueError).
C1_EmptyMaskError ==
    (Called("extract_largest_component") /\ mask.fg = {})
        => raised = "EmptyMaskError"

\* ---------------------------------------------------------------- claim C2

C3_WrongDimensionFails ==
    (Called("mask_to_polygons") /\ NDim(mask) # 2)
        => /\ raised = "AssertionError"
           /\ ~traced.called
           /\ ret = <<>>

C3_Witness ==
    /\ Called("mask_to_polygons")
    /\ NDim(mask) = 3
    /\ raised = "AssertionError"
    /\ mask.fg # {}

\* ---------------------------------------------------------------- claim C4

\* C4: for a mask with exactly one connected foreground component,
\* extract_largest_component returns a uint8 mask of the input's shape whose
\* foreground is the input's foreground, and the centroid whose row and column
\* are the means of the foreground's rows and columns rounded to the nearest
\* integer (ties to even).
C4_SingleComponentIsReturned ==
    (Called("extract_largest_component") /\ SingleComponent(mask.fg))
        => /\ raised = "none"
           /\ ret[1].shape = mask.shape
           /\ ret[1].dtype = "uint8"
           /\ ret[1].fg = mask.fg
           /\ IsRoundedMean(ret[2][1], mask.fg, 1)
           /\ IsRoundedMean(ret[2][2], mask.fg, 2)

\* A single component whose column mean is not an integer and rounds up.
C4_Witness ==
    /\ Returned("extract_largest_component")
    /\ SingleComponent(mask.fg)
    /\ Cardinality(mask.fg) >= 3
    /\ ret[2][2] * Cardinality(mask.fg) > SumOver(mask.fg, 2)
    /\ ret[1].fg = mask.fg

\* ---------------------------------------------------------------- claim C5

DistinctSizes(components) ==
    \A a \in components : \A b \in components :
        a # b => Cardinality(a) # Cardinality(b)

\* C5: for a mask with several connected components of pairwise distinct
\* sizes, the mask returned by extract_largest_component is one connected
\* component of the input, and no component of the input has more pixels.
C5_LargestComponentIsReturned ==
    (/\ Called("extract_largest_component")
     /\ mask.fg # {}
     /\ ~SingleComponent(mask.fg)
     /\ DistinctSizes(ComponentsOf(mask.fg)))
        => /\ raised = "none"
           /\ ret[1].fg \in ComponentsOf(mask.fg)
           /\ \A c \in ComponentsOf(mask.fg) :
                  Cardinality(c) <= Cardinality(ret[1].fg)

\* Three components of distinct sizes, the largest not the first one met.
C5_Witness ==
    /\ Returned("extract_largest_component")
    /\ Cardinality(ComponentsOf(mask.fg)) >= 3
    /\ DistinctSizes(ComponentsOf(mask.fg))
    /\ RasterFirst(mask.fg) \notin ret[1].fg
    /\ \A c \in ComponentsOf(mask.fg) : Cardinality(c) <= Cardinality(ret[1].fg)

\* ---------------------------------------------------------------- claim C6

\* C6: for a single-component mask and a centroid on a foreground pixel, the
\* endocardium mask of split_into_endo_epi_masks is exactly the set of
\* foreground pixels joined to the centroid by a chain of 8-adjacent
\* foreground pixels (the fill's default connectivity); it holds the centroid
\* pixel and lies inside the input's foreground.
C6_ForegroundSeedFillsComponent ==
    (/\ Called("split_into_endo_epi_masks")
     /\ SingleComponent(mask.fg)
     /\ seed \in mask.fg)
        => /\ raised = "none"
           /\ ret[2].shape = mask.shape
           /\ ret[2].fg = Reachable(mask.fg, {seed})
           /\ seed \in ret[2].fg
           /\ ret[2].fg \subseteq mask.fg

\* A component held together by a diagonal step only: the fill crosses it.
C6_Witness ==
    /\ Returned("split_into_endo_epi_masks")
    /\ SingleComponent(mask.fg)
    /\ seed \in mask.fg
    /\ \E p \in mask.fg :
          \A q \in mask.fg : Abs(p[1] - q[1]) + Abs(p[2] - q[2]) # 1
    /\ Cardinality(mask.fg) >= 3
    /\ ret[2].fg = mask.fg

\* ---------------------------------------------------------------- claim C7

Orient(a, b, c) == (b[1] - a[1]) * (c[2] - a[2]) - (b[2] - a[2]) * (c[1] - a[1])

OnSegment(p, a, b) ==
    /\ Orient(a, b, p) = 0
    /\ (a[1] - p[1]) * (b[1] - p[1]) + (a[2] - p[2]) * (b[2] - p[2]) <= 0

\* p lies in the closed triangle a, b, c.
InTriangle(p, a, b, c) ==
    \/ OnSegment(p, a, b) \/ OnSegment(p, b, c) \/ OnSegment(p, c, a)
    \/ /\ Orient(a, b, c) # 0
       /\ \/ Orient(a, b, p) >= 0 /\ Orient(b, c, p) >= 0 /\ Orient(c, a, p) >= 0
          \/ Orient(a, b, p) <= 0 /\ Orient(b, c, p) <= 0 /\ Orient(c, a, p) <= 0

IsFilledRect(m) ==
    /\ m.fg # {}
    /\ \A p \in m.fg : \A q \in m.fg : <<p[1], q[2]>> \in m.fg
    /\ \A p \in m.fg : \A q \in m.fg :
          \A r \in 0 .. Height(m) - 1 :
              (p[1] <= r /\ r <= q[1]) => <<r, p[2]>> \in m.fg

\* A filled convex shape: every pixel of the image that lies in a triangle of
\* three foreground pixels is a foreground pixel.
IsFilledConvex(m) ==
    \/ IsFilledRect(m)
    \/ /\ m.fg # {}
       /\ \A p \in Background(m) :
              ~\E a \in m.fg : \E b \in m.fg : \E c \in m.fg : InTriangle(p, a, b, c)

\* p is a foreground pixel whose four edge neighbours are foreground pixels.
Interior(p, m) ==
    /\ p \in m.fg
    /\ \A d \in {<<-1, 0>>, <<1, 0>>, <<0, -1>>, <<0, 1>>} :
          <<p[1] + d[1], p[2] + d[2]>> \in m.fg

\* C7: for a mask that is a filled convex shape with the centroid on an
\* interior foreground pixel, split_into_endo_epi_masks returns an epicardium
\* mask and an endocardium mask both equal to the input mask; so does
\* get_endo_epi_masks, whose centroid is the one it computes.
C7_ConvexShapeIsReproduced ==
    (/\ Called("split_into_endo_epi_masks") \/ Called("get_endo_epi_masks")
     /\ seed # <<>>
     /\ Interior(seed, mask)
     /\ IsFilledConvex(mask))
        => /\ raised = "none"
           /\ ret[1].shape = mask.shape /\ ret[1].fg = mask.fg
           /\ ret[2].shape = mask.shape /\ ret[2].fg = mask.fg

\* A convex shape that is no rectangle, through get_endo_epi_masks.
C7_Witness ==
    /\ Returned("get_endo_epi_masks")
    /\ seed # <<>>
    /\ Interior(seed, mask)
    /\ ~IsFilledRect(mask)
    /\ IsFilledConvex(mask)
    /\ ret[1].fg = mask.fg
    /\ ret[2].fg = mask.fg

\* ---------------------------------------------------------------- claim C8

\* The filled square of side s: it is a filled rectangle of s rows and s columns.
IsFilledSquare(m, s) ==
    /\ IsFilledRect(m)
    /\ Cardinality({p[1] : p \in m.fg}) = s
    /\ Cardinality({p[2] : p \in m.fg}) = s

\* The boundary ring of the foreground: the foreground pixels with an edge
\* neighbour that is not foreground.
Ring(m) ==
    {p \in m.fg :
        \E d \in {<<-1, 0>>, <<1, 0>>, <<0, -1>>, <<0, 1>>} :
            <<p[1] + d[1], p[2] + d[2]>> \notin m.fg}

\* The foreground pixels with at least one background pixel of the image
\* under the erosion kernel (the cross).
HasBackgroundNeighbour(m) ==
    {p \in m.fg :
        \E q \in Background(m) : Abs(p[1] - q[1]) + Abs(p[2] - q[2]) = 1}

\* C8 (as stated): for every binary mask get_perimeter returns a mask of the
\* same shape with values 0 and 1 only, 1 exactly on the foreground pixels
\* with a background neighbour under the erosion kernel; for a filled square
\* of side s >= 2 this is the boundary ring of 4*(s-1) pixels.
C8_PerimeterIsBoundaryRing ==
    Called("get_perimeter")
        => /\ raised = "none"
           /\ ret.shape = mask.shape
           /\ \A p \in Cells(mask.shape) :
                  ret.val[p] = IF p \in HasBackgroundNeighbour(mask) THEN 1 ELSE 0
           /\ \A s \in 2 .. Height(mask) :
                  IsFilledSquare(mask, s)
                      => /\ {p \in Cells(mask.shape) : ret.val[p] = 1} = Ring(mask)
                         /\ Cardinality(Ring(mask)) = 4 * (s - 1)

\* C8 on masks of an integer element type only: the square that touches the
\* image border still refutes it.
C8_PerimeterIsBoundaryRingUint8 ==
    mask.dtype = "uint8" => C8_PerimeterIsBoundaryRing

\* ---------------------------------------------------------------- claim C9

\* C9: for a 2-D mask whose tracer yields the contours c_1 .. c_n, each a
\* sequence of (row, column) points, mask_to_polygons returns n flat
\* sequences in the same order; the k-th has twice as many entries as c_k has
\* points, and the entries of its i-th pair are the column (x) and then the
\* row (y) of the i-th point of c_k.  No contour gives the empty list.
C9_PolygonsAreFlippedAndFlattened ==
    (Called("mask_to_polygons") /\ NDim(mask) = 2)
        => /\ raised = "none"
           /\ traced.called
           /\ Len(ret) = Len(traced.contours)
           /\ \A k \in 1 .. Len(traced.contours) :
                  LET c == traced.contours[k]
                  IN  /\ Len(ret[k]) = 2 * Len(c)
                      /\ \A i \in 1 .. Len(c) :
                             /\ ret[k][2 * i - 1] = c[i][2]
                             /\ ret[k][2 * i] = c[i][1]

\* Two contours of different lengths, the first of two different points.
C9_Witness ==
    /\ Returned("mask_to_polygons")
    /\ Len(traced.contours) = 2
    /\ Len(traced.contours[1]) = 2
    /\ Len(traced.contours[2]) = 1
    /\ traced.contours[1][1] # traced.contours[1][2]
    /\ Len(ret) = 2
    /\ Len(ret[1]) = 4

\* --------------------------------------------------------------- claim C10

InBounds(p, m) ==
    /\ 0 <= p[1] /\ p[1] < Height(m)
    /\ 0 <= p[2] /\ p[2] < Width(m)

\* C10: for a mask with at least one foreground pixel, the centroid
\* extract_largest_component returns lies within the mask bounds, and the seed
\* get_endo_epi_masks hands to split_into_endo_epi_masks is that centroid, so
\* it lies within the bounds too.  (The centroid need not lie on a foreground
\* pixel of the selected component: C10_Witness.)
C10_CentroidInBounds ==
    /\ (Called("extract_largest_component") /\ mask.fg # {})
           => (raised = "none" /\ InBounds(ret[2], mask))
    /\ (Called("get_endo_epi_masks") /\ mask.fg # {})
           => /\ raised = "none"
              /\ InBounds(seed, mask)
              /\ \E c \in ComponentsOf(mask.fg) :
                     /\ IsRoundedMean(seed[1], c, 1)
                     /\ IsRoundedMean(seed[2], c, 2)
              /\ seed \in ret[2].fg

\* A component whose centroid falls on a background pixel, in the last row
\* and the last column of its image.
C10_Witness ==
    /\ Returned("extract_largest_component")
    /\ ret[2] \notin ret[1].fg
    /\ InBounds(ret[2], mask)
    /\ ret[2][1] = Height(mask) - 1
    /\ Cardinality(mask.fg) >= 3

====
